---- MODULE Spec2Model ----
(***************************************************************************)
(* Model of marian's synchronous training coordinator, SyncGraphGroup      *)
(* (src/src/training/graph_group_sync.cpp): the batch accumulator          *)
(* tryGetSubBatches with its helper roundUpRatio, and the update cycle.    *)
(*                                                                         *)
(* Real numbers (the C++ doubles: delay_, the scheduler's multiplier, the  *)
(* ratio) are exact rationals <<numerator, denominator>>, denominator > 0. *)
(***************************************************************************)
EXTENDS Integers, Sequences, FiniteSets, TLC

VARIABLES
  cfg,                  \* options_/scheduler_/mpi_ configuration, fixed for a run
  pendingBatches,       \* pendingBatches_
  typicalTrgBatchWords, \* GraphGroup::typicalTrgBatchWords_ (running average)
  updateMultiplier,     \* updateMultiplier_ (a rational)
  first,                \* first_
  costScale,            \* per process: costScaleFactor_ (as an exponent) and noNanSeen_
  blocked,              \* a process waits in a collective the others never enter
  phase,                \* where each process and each slot's worker is in its cycle
  params,               \* per slot and shard: graphs_[i]->params()->vals()
  grads,                \* per slot and shard: graphs_[i]->params()->grads()
  aborted,              \* "no", or the ABORT that ended the run
  numCalls,             \* number of update(newBatch) calls made so far
  batchesRead,          \* the scheduler's count of batches read (sum of numReadBatches)
  last,                 \* what the last update(newBatch) call did
  rIn, rOut, rDone      \* roundUpRatio applied on its own: argument, result, applied

vars == <<cfg, pendingBatches, typicalTrgBatchWords, updateMultiplier, first,
          costScale, blocked, phase, params, grads, aborted, numCalls,
          batchesRead, last, rIn, rOut, rDone>>

-----------------------------------------------------------------------------
(* Bounds of the model *)

\* update(newBatch) is called at most this many times in a run
MaxCalls == 3

\* the scheduler's multiplier is k / 2 for k in 0..MaxMultNum
MaxMultNum == 3

\* roundUpRatio on its own is applied to k / RatioDen for k in 0..MaxRatioNum
MaxRatioNum == 150

RatioDen == 8

\* the claims about roundUpRatio range over the powers of two 2^0 .. 2^MaxExp
MaxExp == 7

\* static mode: the reader delivers batches of 1..MaxBatchSize sentences
MaxBatchSize == 6

-----------------------------------------------------------------------------
(* Exact rational arithmetic standing for the C++ doubles *)

Num(r) == r[1]

Den(r) == r[2]

RMul(a, b) == <<Num(a) * Num(b), Den(a) * Den(b)>>

RLess(a, b) == Num(a) * Den(b) < Num(b) * Den(a)

RLeq(a, b) == Num(a) * Den(b) <= Num(b) * Den(a)

REq(a, b) == Num(a) * Den(b) = Num(b) * Den(a)

RInt(n) == <<n, 1>>

Abs(x) == IF x < 0 THEN -x ELSE x

\* ceil(n / d) for n >= 0, d > 0
CeilDiv(n, d) == (n + d - 1) \div d

\* ceil of a rational >= 0
RCeil(r) == CeilDiv(Num(r), Den(r))

-----------------------------------------------------------------------------
(* roundUpRatio, graph_group_sync.cpp:89-110 *)

\* line 101
maxError == <<1, 4>>

\* mutant: the search starts at p = 1, so it only rounds to whole numbers
largestPowerOfTwoNone(p, ratio) == p

\* lines 94-96: p = 1; while (p*2 < ratio) p *= 2;
RECURSIVE largestPowerOfTwo(_, _)
largestPowerOfTwo(p, ratio) ==
  IF RLess(RInt(p * 2), ratio) THEN largestPowerOfTwo(p * 2, ratio) ELSE p

\* line 103: ceil(ratio / p) * p
proposedRatio(ratio, p) == CeilDiv(Num(ratio), Den(ratio) * p) * p

\* mutant: an error margin of 50% instead of 25%
withinMarginWide(ratio, proposed) ==
  Abs(proposed * Den(ratio) - Num(ratio)) * 2 <= Abs(Num(ratio))

\* line 104-105: fabs((proposedRatio - ratio) / ratio) <= maxError, for ratio /= 0
withinMargin(ratio, proposed) ==
  Abs(proposed * Den(ratio) - Num(ratio)) * Den(maxError)
    <= Num(maxError) * Abs(Num(ratio))

\* lines 102-109: while (p >= 1) { ...; p /= 2; } return ratio;
RECURSIVE searchPowers(_, _)
searchPowers(p, ratio) ==
  IF withinMargin(ratio, proposedRatio(ratio, p))
  THEN RInt(proposedRatio(ratio, p))
  ELSE IF p = 1 THEN ratio ELSE searchPowers(p \div 2, ratio)

roundUpRatio(ratio) ==
  IF Num(ratio) = 0 THEN ratio
  ELSE searchPowers(largestPowerOfTwo(1, ratio), ratio)

-----------------------------------------------------------------------------
(* Batches.  A batch is [id, samples]: id numbers the update(newBatch) call  *)
(* that delivered the batch it was cut from, samples is the sequence of the  *)
(* target-word counts of its sentences.  data::Batch is declared outside the *)
(* scanned sources; size, wordsTrg, widthTrg and split follow its contract.  *)

RECURSIVE SumSeq(_)
SumSeq(s) == IF s = <<>> THEN 0 ELSE Head(s) + SumSeq(Tail(s))

RECURSIVE Pow2(_)
Pow2(n) == IF n = 0 THEN 1 ELSE 2 * Pow2(n - 1)

RECURSIVE MaxSeq(_)
MaxSeq(s) ==
  IF s = <<>> THEN 0
  ELSE IF Head(s) > MaxSeq(Tail(s)) THEN Head(s) ELSE MaxSeq(Tail(s))

Min(a, b) == IF a < b THEN a ELSE b

Max(a, b) == IF a > b THEN a ELSE b

\* batch->size(): number of sentences
size(b) == Len(b.samples)

\* batch->wordsTrg(): number of target words (labels)
wordsTrg(b) == SumSeq(b.samples)

\* batch->widthTrg(): maximum target length
widthTrg(b) == MaxSeq(b.samples)

\* batch->split(n, sizeLimit): the first min(size, sizeLimit) sentences, cut in
\* encounter order into consecutive pieces of ceil(that / n) sentences each
split(b, n, sizeLimit) ==
  LET total   == Min(size(b), sizeLimit)
      subSize == CeilDiv(total, n)
      pieces  == CeilDiv(total, subSize)
  IN  [k \in 1..pieces |->
        [id |-> b.id,
         samples |-> SubSeq(b.samples, (k - 1) * subSize + 1,
                            Min(k * subSize, total))]]

\* batch->split(n) with the default size limit SIZE_MAX
splitAll(b, n) == split(b, n, size(b))

RECURSIVE Concat(_)
Concat(ss) == IF ss = <<>> THEN <<>> ELSE Head(ss) \o Concat(Tail(ss))

Reverse(s) == [k \in 1..Len(s) |-> s[Len(s) + 1 - k]]

\* the orders of the indices idx in which the keys k are non-increasing
RECURSIVE OrdersOf(_, _)
OrdersOf(idx, k) ==
  IF idx = {} THEN {<<>>}
  ELSE LET tops == {i \in idx : \A j \in idx : k[i] >= k[j]}
       IN  UNION {{<<i>> \o rest : rest \in OrdersOf(idx \ {i}, k)} : i \in tops}

\* the orders std::sort may leave s in: every permutation of s whose keys are
\* non-increasing (std::sort is not stable: ties fall in an unspecified order)
\* by the keys given in keys, keys[i] the key of s[i]
SortedDesc(s, keys) ==
  {[j \in 1..Len(s) |-> s[o[j]]] : o \in OrdersOf(1..Len(s), keys)}

-----------------------------------------------------------------------------
(* Configuration read through options_, scheduler_ and mpi_ *)

\* devices_.size() * mpi_->numMPIProcesses(), line 134
warpSize == cfg.numDevs * cfg.numProcs

\* line 71: devices_.size() * mpi_->numMPIProcesses() * delay_
multiplier == RMul(RInt(warpSize), cfg.delay)

\* GraphGroup::updateAverageTrgBatchWords: a moving average of the target
\* words per batch, updated by every batch it is given
updateAverageTrgBatchWords(typical, words) == (typical + words) \div 2

-----------------------------------------------------------------------------
(* tryGetSubBatches, graph_group_sync.cpp:115-236 *)

\* mutant: the mode test is dropped, every call takes the dynamic path
isDynamicAlways == TRUE

\* line 137: scheduler_->isDynamicMBSizeScaling()
isDynamicMBSizeScaling == cfg.dynamic

\* mutant: the batch is split over one warp only, whatever delay_ is
staticSubBatchesOneWarp(newBatch) == splitAll(newBatch, warpSize)

\* lines 142-143: static mode, split over ceil(delay_) warps
staticSubBatches(newBatch) ==
  splitAll(newBatch, RCeil(cfg.delay) * warpSize)

\* lines 153-173 with the value um of updateMultiplier_: the target ratio of
\* this call; typical is the running average after line 167 updated it
targetRatioWith(mult, typical, um) ==
  LET r0 == RMul(mult, um)
      r1 == IF cfg.refBatchLabels # 0
            THEN RMul(r0, <<cfg.refBatchLabels * Den(um), typical * Num(um)>>)
            ELSE r0
  IN  IF cfg.mbRoundUp THEN roundUpRatio(r1) ELSE r1

\* lines 153-173: the member updateMultiplier_ is read as it is at the call
targetRatio(mult, typical) == targetRatioWith(mult, typical, updateMultiplier)

\* mutant: <= instead of <
notEnoughOrEqual(queueLength, ratio) == RLeq(RInt(queueLength), ratio)

\* mutant: the queue is measured before the new batch is appended
notEnoughBeforePush(queueLength, ratio) == RLess(RInt(queueLength - 1), ratio)

\* line 175: pendingBatches_.size() < ratio
notEnough(queueLength, ratio) == RLess(RInt(queueLength), ratio)

\* mutant: the minimum of 256 target words is enforced for every queue length
reducedBatchSizeMinAlways(batch, ratio, queueLength) ==
  Max(CeilDiv(size(batch) * Num(ratio), Den(ratio) * queueLength),
      1 + (256 * size(batch) - 1) \div wordsTrg(batch))

\* lines 187-193: the size one queued batch is cut down to
reducedBatchSize(batch, ratio, queueLength) ==
  LET reduced == CeilDiv(size(batch) * Num(ratio), Den(ratio) * queueLength)
      minTrgWords == 256
      minSize == IF queueLength = 1
                 THEN 1 + (minTrgWords * size(batch) - 1) \div wordsTrg(batch)
                 ELSE 1
  IN  Max(reduced, minSize)

\* lines 186-196: shorten every queued batch
shrink(queue, ratio) ==
  [k \in 1..Len(queue) |->
     IF reducedBatchSize(queue[k], ratio, Len(queue)) < size(queue[k])
     THEN split(queue[k], 1, reducedBatchSize(queue[k], ratio, Len(queue)))[1]
     ELSE queue[k]]

\* line 200
numWarpsOf(queueLength) == (queueLength - 1) \div warpSize + 1

\* mutant: the division is rounded up
splitIntoRoundedUp(lastWarpSize) == CeilDiv(warpSize, lastWarpSize)

\* mutant: the last warp is split only when it divides the warp size
splitIntoExact(lastWarpSize) ==
  IF warpSize % lastWarpSize = 0 THEN warpSize \div lastWarpSize ELSE 1

\* line 207: warpSize / lastWarpSize, an integer division
splitIntoOf(lastWarpSize) == warpSize \div lastWarpSize

\* lines 200-225: split the batches of an underfull last warp
rebalance(queue) ==
  LET numWarps         == numWarpsOf(Len(queue))
      availableDevices == numWarps * warpSize
      fullWarpsBatches == (numWarps - 1) * warpSize
      lastWarpSize     == Len(queue) - fullWarpsBatches
      splitInto        == splitIntoOf(lastWarpSize)
      \* lines 212-215 pop the last warp's batches from the back
      batchesToSplit   == Reverse(SubSeq(queue, fullWarpsBatches + 1, Len(queue)))
  IN  IF Len(queue) < availableDevices /\ splitInto > 1
      THEN SubSeq(queue, 1, fullWarpsBatches)
             \o Concat([k \in 1..Len(batchesToSplit) |->
                          splitAll(batchesToSplit[k], splitInto)])
      ELSE queue

\* line 226
tooManyBatches(queueBefore, queueAfter) ==
  /\ Len(queueBefore) < numWarpsOf(Len(queueBefore)) * warpSize
  /\ Len(queueAfter) > numWarpsOf(Len(queueBefore)) * warpSize

\* mutant: the counter is taken after the queue was rebalanced
numReadBatchesAfterSplit(queue, balanced) == Len(balanced)

\* line 181: numReadBatches = pendingBatches_.size(), taken before the queue
\* is shortened and rebalanced
numReadBatchesOf(queue, balanced) == Len(queue)

\* mutant: the queue is copied, not moved
handOffCopy(balanced) == balanced

\* line 228: what std::move leaves in pendingBatches_ (subBatches is an empty
\* vector when it is assigned)
handOff(balanced) == <<>>

\* lines 231-233
sortByWidth(subBatches) ==
  IF Len(subBatches) > 1 THEN SortedDesc(subBatches, [i \in 1..Len(subBatches) |-> widthTrg(subBatches[i])])
  ELSE {subBatches}

\* The outcomes of tryGetSubBatches(newBatch, subBatches, numReadBatches) when
\* the scheduler's multiplier is mult: the return value (ready), the two
\* out-parameters, the members it leaves behind, and the ABORT it dies of.
tryGetSubBatches(newBatch, mult) ==
  LET none == [ready |-> FALSE, subBatches |-> <<>>, numReadBatches |-> 0,
               pending |-> pendingBatches, typical |-> typicalTrgBatchWords,
               ratio |-> RInt(0), queueLength |-> 0, shrunk |-> <<>>,
               abort |-> "no"]
  IN
  IF ~isDynamicMBSizeScaling
  THEN {[none EXCEPT !.ready = TRUE,
                     !.subBatches = staticSubBatches(newBatch),
                     !.numReadBatches = 1]}
  ELSE
    LET queue   == Append(pendingBatches, newBatch)                  \* line 150
        typical == IF cfg.refBatchLabels # 0
                   THEN updateAverageTrgBatchWords(typicalTrgBatchWords,
                                                   wordsTrg(newBatch))
                   ELSE typicalTrgBatchWords
    IN
    IF cfg.refBatchLabels # 0 /\ typicalTrgBatchWords = 0            \* line 165
    THEN {[none EXCEPT !.pending = queue, !.abort = "typicalTrgBatchWords"]}
    ELSE
      LET ratio  == targetRatio(mult, typical)
          base   == [none EXCEPT !.typical = typical, !.ratio = ratio,
                                 !.queueLength = Len(queue)]
          shrunk == shrink(queue, ratio)
          split2 == rebalance(shrunk)
      IN
      IF notEnough(Len(queue), ratio)                                \* line 175
      THEN {[base EXCEPT !.pending = queue]}
      ELSE IF tooManyBatches(shrunk, split2)                         \* line 226
      THEN {[base EXCEPT !.pending = split2, !.abort = "tooManyBatches"]}
      ELSE {[base EXCEPT !.ready = TRUE,
                         !.subBatches = s,
                         !.numReadBatches = numReadBatchesOf(queue, split2),
                         !.shrunk = shrunk,
                         !.pending = handOff(split2)] : s \in sortByWidth(split2)}

-----------------------------------------------------------------------------
(* The device grid.  A slot is <<rank, localDeviceIndex>>; every slot holds  *)
(* a full replica of the parameters and of the gradient, and owns one shard  *)
(* of both, named by the slot.                                               *)

Procs == 0..cfg.numProcs - 1

Devs == 0..cfg.numDevs - 1

Slots == Procs \X Devs

Shards == Slots

NoShard == <<-1, -1>>

\* mutant: the warp is scaled by the devices of a process, not by the processes
subBatchIndexByDevices(warp, localDeviceIndex, rank) ==
  (warp * cfg.numDevs + rank) * cfg.numDevs + localDeviceIndex

\* line 268
subBatchIndex(warp, localDeviceIndex, rank) ==
  (warp * cfg.numProcs + rank) * cfg.numDevs + localDeviceIndex

\* lines 264-273: getSubBatch(warp, localDeviceIndex, rank), counted from 0;
\* <<>> stands for nullptr
getSubBatch(subBatches, warp, localDeviceIndex, rank) ==
  LET index == subBatchIndex(warp, localDeviceIndex, rank)
  IN  IF index < Len(subBatches) THEN <<subBatches[index + 1]>> ELSE <<>>

\* lines 292-296: the indexes one slot addresses, warp after warp, up to its
\* first index that is beyond the end of n sub-batches
RECURSIVE slotIndexes(_, _, _)
slotIndexes(n, slot, warp) ==
  IF subBatchIndex(warp, slot[2], slot[1]) < n
  THEN <<subBatchIndex(warp, slot[2], slot[1])>> \o slotIndexes(n, slot, warp + 1)
  ELSE <<>>

\* lines 292-308: the sub-batches one slot runs forward/backward on, in order
RECURSIVE slotBatches(_, _, _)
slotBatches(subBatches, slot, warp) ==
  IF getSubBatch(subBatches, warp, slot[2], slot[1]) = <<>> THEN <<>>
  ELSE getSubBatch(subBatches, warp, slot[2], slot[1])
         \o slotBatches(subBatches, slot, warp + 1)

\* mutant: the sub-batches are left in the order they came in
sortByWordsNot(subBatches) == {subBatches}

\* lines 260-261
sortByWords(subBatches) ==
  SortedDesc(subBatches, [i \in 1..Len(subBatches) |-> wordsTrg(subBatches[i])])

-----------------------------------------------------------------------------
(* Gradient and parameter values.  A gradient region is "zero", "finite" or  *)
(* "nonfinite" (it holds a NaN or an Inf); a parameter shard is the number   *)
(* of optimizer updates it has received, or Poisoned once a non-finite       *)
(* gradient has been applied to it.                                          *)

Poisoned == -1

addGrad(a, b) ==
  IF a = "nonfinite" \/ b = "nonfinite" THEN "nonfinite"
  ELSE IF a = "finite" \/ b = "finite" THEN "finite"
  ELSE "zero"

RECURSIVE sumGrads(_, _)
sumGrads(g, slots) ==
  IF slots = {} THEN "zero"
  ELSE LET s == CHOOSE x \in slots : TRUE
       IN  addGrad(g[s], sumGrads(g, slots \ {s}))

\* lines 286-324: backward(zero = false) adds each sub-batch's gradient to the
\* slot's buffer.  The gradient of a sub-batch is finite, except that the
\* slot running the first sub-batch gets a non-finite value in region bad.
accumulate(g, subBatches, bad) ==
  [s \in Slots |-> [h \in Shards |->
     IF slotBatches(subBatches, s, 0) = <<>> THEN g[s][h]
     ELSE IF h = bad /\ getSubBatch(subBatches, 0, s[2], s[1]) = <<subBatches[1]>>
          THEN addGrad(g[s][h], "nonfinite")
          ELSE addGrad(g[s][h], "finite")]]

\* comm_->scatterReduceAndResetGrads(), line 328: every slot's own shard gets
\* the sum over all slots, the rest of its gradient buffer is reset
scatterReduceAndResetGrads(g) ==
  [s \in Slots |-> [h \in Shards |->
     IF h = s THEN sumGrads([t \in Slots |-> g[t][h]], Slots) ELSE "zero"]]

\* mutant: only cost scaling turns the check on
checkGradientCostScaleOnly == cfg.costScale

\* line 330: costScale_ || dynamicGradientScaling_ || checkGradientNan_
checkGradient ==
  cfg.costScale \/ cfg.dynamicGradientScaling \/ cfg.checkGradientNan

\* comm_->foreach(checkNanOrNorm, accNanOrNorm, 0.f): the norm combined over
\* the reduced shards is finite iff no shard holds a non-finite value
isFiniteNorm(g) == \A s \in Slots : g[s][s] # "nonfinite"

\* lines 337-338: gradNorm is 0 when the gradient is not checked
saneGradient(g) == ~checkGradient \/ isFiniteNorm(g)

\* optimizerShards_[i]->update(curParam, curGrad, ...), line 350
optimizerUpdate(param, grad) ==
  IF grad = "nonfinite" \/ param = Poisoned THEN Poisoned ELSE param + 1

\* comm_->allGatherParams(), line 361: every replica receives every shard
\* from the slot that owns it
allGatherParams(pr) == [s \in Slots |-> [h \in Shards |-> pr[h][h]]]

\* GraphGroup::decreaseCostScaleFactor(), called at line 380
decreaseCostScaleFactor(cs) == [factor |-> cs.factor - 1, noNanSeen |-> 0]

\* GraphGroup::increaseCostScaleFactor(), called at line 406: raises the
\* factor once costScaleFreq updates in a row were sane
increaseCostScaleFactor(cs) ==
  IF cs.noNanSeen + 1 >= cfg.costScaleFreq
  THEN [factor |-> cs.factor + 1, noNanSeen |-> 0]
  ELSE [factor |-> cs.factor, noNanSeen |-> cs.noNanSeen + 1]

-----------------------------------------------------------------------------
(* initialize, graph_group_sync.cpp:41-74 *)

Unallocated == -2

\* lines 44-50: the forward step draws every local graph's weights at random,
\* each device its own; two processes draw the same weights for a device only
\* when their random generators agree (cfg.sameSeed)
initialWeights(slot) ==
  IF cfg.sameSeed THEN 0 - 10 * slot[2] ELSE 0 - 10 * slot[2] - 100 * slot[1]

\* lines 54-58: copy the weights of the process's graph 0 to its other graphs
replicatedWeights(slot) == initialWeights(<<slot[1], 0>>)

\* lines 44-58: parameters of every slot after initialize
initialParams == [s \in Slots |-> [h \in Shards |-> replicatedWeights(s)]]

\* lines 47-48: allocateBackward, set_zero_adjoint
initialGrads == [s \in Slots |-> [h \in Shards |-> "zero"]]

\* lines 71-73
initialUpdateMultiplier == IF cfg.dynamic THEN multiplier ELSE RInt(1)

-----------------------------------------------------------------------------
(* update(subBatches, numReadBatches), graph_group_sync.cpp:252-407 *)

\* the value of costScaleFactor_: it starts at 2^MaxCalls and is halved or
\* doubled by every decrease or increase, so it stays a whole number
costScaleFactor(cs) == Pow2(cs.factor + MaxCalls)

\* line 298: models_[localDeviceIndex]->build(graph, subBatch) yields the
\* loss of the sub-batch and its number of labels; the loss is one unit per
\* target word plus one per sentence
build(subBatch) ==
  [loss |-> wordsTrg(subBatch) + size(subBatch), count |-> wordsTrg(subBatch)]

\* lines 299-300: the product is a new node, rationalLoss is left as it was
scaled(rationalLoss, cs) ==
  IF costScaleFactor(cs) # 1
  THEN [rationalLoss EXCEPT !.loss = rationalLoss.loss * costScaleFactor(cs)]
  ELSE rationalLoss

\* StaticLoss(), and localDeviceLosses[localDeviceIndex] += *rationalLoss
StaticLoss == [loss |-> 0, count |-> 0]

addLoss(staticLoss, rationalLoss) ==
  [loss |-> staticLoss.loss + rationalLoss.loss,
   count |-> staticLoss.count + rationalLoss.count]

\* mutant: the scaled loss is the one that is accumulated
RECURSIVE localDeviceLossScaled(_, _)
localDeviceLossScaled(batches, cs) ==
  IF batches = <<>> THEN StaticLoss
  ELSE addLoss(localDeviceLossScaled(Tail(batches), cs),
               scaled(build(Head(batches)), cs))

\* lines 285 and 292-305: the loss one device has accumulated over the
\* sub-batches it ran, from an empty StaticLoss
RECURSIVE localDeviceLoss(_, _)
localDeviceLoss(batches, cs) ==
  IF batches = <<>> THEN StaticLoss
  ELSE addLoss(localDeviceLoss(Tail(batches), cs), build(Head(batches)))

\* lines 383-384: std::accumulate over the local devices of process rank
RECURSIVE accumulateLosses(_, _, _)
accumulateLosses(subBatches, rank, numDevices) ==
  IF numDevices = 0 THEN StaticLoss
  ELSE addLoss(accumulateLosses(subBatches, rank, numDevices - 1),
               localDeviceLoss(slotBatches(subBatches, <<rank, numDevices - 1>>, 0),
                               costScale[rank]))

localLoss(subBatches, rank) == accumulateLosses(subBatches, rank, cfg.numDevs)

\* lines 253-258
totalSize(subBatches) == SumSeq([k \in 1..Len(subBatches) |-> size(subBatches[k])])

totalTrgWords(subBatches) ==
  SumSeq([k \in 1..Len(subBatches) |-> wordsTrg(subBatches[k])])

\* lines 340-381: parameters after the update-or-skip branch
paramsAfter(pr, g, sane) ==
  IF sane
  THEN allGatherParams([s \in Slots |-> [h \in Shards |->
         IF h = s THEN optimizerUpdate(pr[s][s], g[s][s]) ELSE pr[s][h]]])
  ELSE pr

\* mutant: the own shard keeps its gradient after the update or the skip
gradsAfterKept(g) == g

\* lines 351 and 374: both branches zero the slot's own gradient shard
gradsAfter(g) == [s \in Slots |-> [h \in Shards |-> IF h = s THEN "zero" ELSE g[s][h]]]

\* a float that is not a number, as the quotient 0/0
NaN == <<0, 0>>

\* the norm one shard's optimizer update returns (line 350)
shardNorm == 12

\* line 356: comm_->foreach(update, accNanOrNorm, 0.f), the norms of the
\* per-shard updates combined; not a number once a shard's gradient is not
updateNorm(g) ==
  IF \E s \in Slots : g[s][s] = "nonfinite" THEN NaN
  ELSE RInt(shardNorm * Cardinality({s \in Slots : g[s][s] = "finite"}))

\* gradNorm /= updateTrgWords, line 359
divideByWords(norm, updateTrgWords) == <<Num(norm), Den(norm) * updateTrgWords>>

\* mutant: the division is done when normalize-gradient is on
normalizedForLoggingInverted(norm, updateTrgWords) ==
  IF cfg.normalizeGradient THEN divideByWords(norm, updateTrgWords) ELSE norm

\* lines 358-359: if(!options_->get<bool>("normalize-gradient"))
normalizedForLogging(norm, updateTrgWords) ==
  IF ~cfg.normalizeGradient THEN divideByWords(norm, updateTrgWords) ELSE norm

\* lines 355-359 and 378: the gradient norm handed to the scheduler
reportedGradNorm(g, sane, batchTrgWords) ==
  IF ~sane THEN RInt(0)
  ELSE normalizedForLogging(updateNorm(g), batchTrgWords)

\* lines 380 and 405-406; a process that stays in the validation pass never
\* gets to line 405
costScaleAfter(cs, sane, stuck) ==
  IF ~sane THEN decreaseCostScaleFactor(cs)
  ELSE IF stuck THEN cs
  ELSE increaseCostScaleFactor(cs)

\* lines 276-338: initialize on the first cycle, accumulation, scatter-reduce
\* and, when gradients are checked, the health check
gradientEvents(didInit) ==
  (IF didInit THEN <<"initialize">> ELSE <<>>)
  \o <<"accumulate", "scatterReduceAndResetGrads">>
  \o (IF checkGradient THEN <<"checkNanOrNorm">> ELSE <<>>)

\* lines 340-381: the update, or the skip with its cost-scale decrease
branchEvents(sane) ==
  IF sane
  THEN <<"optimizerUpdate", "allGatherParams">>
         \o (IF cfg.quantizeBits > 0 THEN <<"quantize">> ELSE <<>>)
  ELSE <<"resetGrads", "decreaseCostScaleFactor">>

\* lines 386-403: report to the scheduler, save, validate on the main process
schedulerEvents(rank, saving, validating) ==
  <<"schedulerUpdate">>
  \o (IF saving THEN <<"save">> ELSE <<>>)
  \o (IF validating /\ rank = 0
      THEN <<"swapWithSmoothed", "allGatherParams", "validate",
             "swapWithOriginal", "allGatherParams">>
      ELSE <<>>)

\* lines 405-406
finalEvents(sane) == IF sane THEN <<"increaseCostScaleFactor">> ELSE <<>>

\* mutant: the cost scale is raised before the report to the scheduler
cycleEventsRaiseEarly(rank, didInit, sane, saving, validating) ==
  gradientEvents(didInit) \o branchEvents(sane) \o finalEvents(sane)
    \o schedulerEvents(rank, saving, validating)

\* the phases of one cycle on process rank, in the order the code runs them
cycleEvents(rank, didInit, sane, saving, validating) ==
  gradientEvents(didInit) \o branchEvents(sane)
    \o schedulerEvents(rank, saving, validating) \o finalEvents(sane)

\* the collective operations of the communicator: every process has to enter
\* one for it to complete
isCollective(event) ==
  event \in {"scatterReduceAndResetGrads", "allGatherParams"}

\* the collective operations process rank issues in a cycle, in order
collectives(rank, didInit, sane, saving, validating) ==
  SelectSeq(cycleEvents(rank, didInit, sane, saving, validating), isCollective)

\* every process issues the same collective operations as process 0
collectivesAgree(didInit, sane, saving, validating) ==
  \A rank \in Procs :
    collectives(rank, didInit, sane, saving, validating)
      = collectives(0, didInit, sane, saving, validating)

\* GraphGroup::isMainProcess(), line 397
isMainProcess(rank) == rank = 0

\* the exponentially smoothed value the optimizer shard keeps for a parameter
smoothed(param) == IF param = Poisoned THEN Poisoned ELSE param + 1000

\* swapWithSmoothed, line 398, before it calls its closure: the slots of the
\* main process exchange their own shard with the smoothed one
swapWithSmoothed(pr) ==
  [s \in Slots |-> [h \in Shards |->
     IF h = s /\ isMainProcess(s[1]) THEN smoothed(pr[s][s]) ELSE pr[s][h]]]

\* swapWithOriginal, line 400, before it calls its closure: the slots of the
\* main process take their own shard of pr back
swapWithOriginal(sw, pr) ==
  [s \in Slots |-> [h \in Shards |->
     IF h = s /\ isMainProcess(s[1]) THEN pr[s][s] ELSE sw[s][h]]]

\* lines 396-402: parameters after the validation pass.  The all-gather of
\* line 398 completes only if every process enters it; if not, the main
\* process stays in it, with the smoothed values swapped in.
paramsAfterValidation(pr, validating, agree) ==
  IF ~validating THEN pr
  ELSE IF agree
       THEN allGatherParams(swapWithOriginal(allGatherParams(swapWithSmoothed(pr)), pr))
       ELSE swapWithSmoothed(pr)

NoOut ==
  [ready |-> FALSE, subBatches |-> <<>>, numReadBatches |-> 0,
   pending |-> <<>>, typical |-> 0, ratio |-> RInt(0), queueLength |-> 0,
   shrunk |-> <<>>, abort |-> "no"]

NoCall ==
  [kind |-> "none", newBatch |-> [id |-> 0, samples |-> <<>>], mult |-> RInt(0),
   out |-> NoOut, subBatches |-> <<>>, didInit |-> FALSE, bad |-> NoShard,
   reduced |-> <<>>, paramsBefore |-> <<>>, paramsUpdated |-> <<>>, sane |-> FALSE, saving |-> FALSE,
   validating |-> FALSE, report |-> <<>>]

\* mutant: a call that is not ready still reports to the scheduler
UpdateNotReadyReports(newBatch, mult, out) ==
  /\ pendingBatches' = out.pending
  /\ typicalTrgBatchWords' = out.typical
  /\ numCalls' = numCalls + 1
  /\ batchesRead' = batchesRead + 1
  /\ last' = [NoCall EXCEPT !.kind = "notReady", !.newBatch = newBatch,
                            !.mult = mult, !.out = out]
  /\ UNCHANGED <<cfg, updateMultiplier, first, costScale, blocked, phase, params,
                 grads, aborted, rIn, rOut, rDone>>

\* update(newBatch) ended in an ABORT inside tryGetSubBatches
UpdateAbort(newBatch, mult, out) ==
  /\ aborted' = out.abort
  /\ pendingBatches' = out.pending
  /\ numCalls' = numCalls + 1
  /\ last' = [NoCall EXCEPT !.kind = "abort", !.newBatch = newBatch,
                            !.mult = mult, !.out = out]
  /\ UNCHANGED <<cfg, typicalTrgBatchWords, updateMultiplier, first, costScale,
                 blocked, phase, params, grads, batchesRead, rIn, rOut, rDone>>

\* lines 243-247: not enough data yet, return right away
UpdateNotReady(newBatch, mult, out) ==
  /\ pendingBatches' = out.pending
  /\ typicalTrgBatchWords' = out.typical
  /\ numCalls' = numCalls + 1
  /\ last' = [NoCall EXCEPT !.kind = "notReady", !.newBatch = newBatch,
                            !.mult = mult, !.out = out]
  /\ UNCHANGED <<cfg, updateMultiplier, first, costScale, blocked, phase, params,
                 grads, aborted, batchesRead, rIn, rOut, rDone>>

\* mutant: the flag is never cleared
firstKept == TRUE

\* line 280: first_ = false
firstAfterInitialize == FALSE

\* line 249 and lines 252-407: one full cycle
UpdateCycle(newBatch, mult, out, subBatches, bad, saving, validating) ==
  LET pr0  == IF first THEN initialParams ELSE params
      g0   == IF first THEN initialGrads ELSE grads
      g1   == accumulate(g0, subBatches, bad)
      g2   == scatterReduceAndResetGrads(g1)
      sane == saneGradient(g2)
      pr1  == paramsAfter(pr0, g2, sane)
      agree == collectivesAgree(first, sane, saving, validating)
  IN
  /\ pendingBatches' = out.pending
  /\ typicalTrgBatchWords' = out.typical
  /\ numCalls' = numCalls + 1
  /\ first' = (IF first THEN firstAfterInitialize ELSE first)
  /\ updateMultiplier' = IF first THEN initialUpdateMultiplier ELSE updateMultiplier
  /\ params' = paramsAfterValidation(pr1, validating, agree)
  /\ blocked' = (validating /\ ~agree)
  /\ grads' = gradsAfter(g2)
  /\ costScale' = [r \in Procs |->
                     costScaleAfter(costScale[r], sane,
                                    validating /\ ~agree /\ isMainProcess(r))]
  /\ batchesRead' = batchesRead + out.numReadBatches
  /\ last' = [kind |-> "cycle", newBatch |-> newBatch, mult |-> mult, out |-> out,
              subBatches |-> subBatches, didInit |-> first, bad |-> bad,
              reduced |-> g2, paramsBefore |-> pr0, paramsUpdated |-> pr1,
              sane |-> sane,
              saving |-> saving, validating |-> validating,
              report |-> [localLoss |-> [r \in Procs |-> localLoss(subBatches, r)],
                          numReadBatches |-> out.numReadBatches,
                          batchSize |-> totalSize(out.subBatches),
                          batchTrgWords |-> totalTrgWords(out.subBatches),
                          gradNorm |-> reportedGradNorm(g2, sane,
                                                       totalTrgWords(out.subBatches))]]
  /\ UNCHANGED <<cfg, phase, aborted, rIn, rOut, rDone>>

-----------------------------------------------------------------------------
(* Runs: configurations and inputs *)

\* the sentences a reader batch is made of: target-word counts
sentenceWords == <<10, 20, 5, 15, 8, 12, 6, 18>>

\* a batch of n sentences
batchOfSize(n) ==
  [k \in 1..n |-> sentenceWords[((k - 1) % Len(sentenceWords)) + 1]]

\* the batches a dynamic-mode reader may deliver
DynamicPool == {<<200, 200, 200>>, <<300, 500, 400, 600>>, <<40>>}

\* base configuration: the options a run is started with, and the inputs it
\* may see.  pool: the batches the reader may deliver; mults: the values
\* scheduler_->getDynamicMBSizeMultiplier() may return; canSave, canValidate:
\* the scheduler is set up to save, to validate; faults: backward passes may
\* produce non-finite gradients.
BaseCfg ==
  [dynamic |-> TRUE, numProcs |-> 1, numDevs |-> 1, delay |-> RInt(1),
   mbRoundUp |-> TRUE, refBatchLabels |-> 0, costScale |-> TRUE,
   dynamicGradientScaling |-> FALSE, checkGradientNan |-> FALSE,
   normalizeGradient |-> FALSE, quantizeBits |-> 0, costScaleFreq |-> 2,
   pool |-> DynamicPool, mults |-> {<<k, 2>> : k \in 0..MaxMultNum},
   canSave |-> FALSE, canValidate |-> FALSE, faults |-> FALSE,
   sameSeed |-> TRUE]

\* <<numProcs, numDevs>>
Grids == {<<1, 1>>, <<1, 2>>, <<2, 1>>, <<2, 2>>, <<1, 3>>}

\* optimizer-delay
Delays == {<<1, 2>>, <<1, 1>>, <<3, 2>>, <<2, 1>>}

DynamicCfgs ==
  {[BaseCfg EXCEPT !.numProcs = g[1], !.numDevs = g[2]] : g \in Grids}
  \cup {[BaseCfg EXCEPT !.numProcs = g[1], !.numDevs = g[2],
                        !.mbRoundUp = FALSE] : g \in {<<1, 1>>, <<2, 2>>}}
  \cup {[BaseCfg EXCEPT !.numDevs = 2, !.delay = dl[1],
                        !.refBatchLabels = dl[2]] :
          dl \in {<<<<1, 2>>, 0>>, <<<<3, 2>>, 400>>,
                  <<<<1, 2>>, 1600>>, <<<<3, 2>>, 1600>>}}

StaticCfgs ==
  {[BaseCfg EXCEPT !.dynamic = FALSE, !.numProcs = g[1], !.numDevs = g[2],
                   !.delay = d, !.mults = {RInt(1), RInt(2)},
                   !.pool = {batchOfSize(n) : n \in 1..MaxBatchSize}] :
     g \in Grids, d \in Delays}

\* <<costScale_, checkGradientNan_>>
CheckModes == {<<TRUE, FALSE>>, <<FALSE, TRUE>>, <<FALSE, FALSE>>}

CycleCfgs ==
  {[BaseCfg EXCEPT !.dynamic = dyn, !.numProcs = g[1], !.numDevs = g[2],
                   !.costScale = cm[1], !.checkGradientNan = cm[2],
                   !.normalizeGradient = (g[1] = 2),
                   !.quantizeBits = (IF g[1] = 2 THEN 8 ELSE 0),
                   !.pool = {<<200, 200, 200>>, <<40>>},
                   !.mults = {<<1, 2>>, <<1, 1>>},
                   !.canSave = TRUE, !.canValidate = TRUE, !.faults = TRUE,
                   !.sameSeed = g[3]] :
     dyn \in BOOLEAN, cm \in CheckModes,
     g \in {<<1, 2, TRUE>>, <<2, 1, TRUE>>, <<2, 1, FALSE>>}}

\* the shard region in which a cycle's gradient is non-finite, if any
Bads == IF cfg.faults THEN {NoShard} \cup Shards ELSE {NoShard}

\* scheduler_->saving(), scheduler_->validating()
Savings == IF cfg.canSave THEN BOOLEAN ELSE {FALSE}

Validatings == IF cfg.canValidate THEN BOOLEAN ELSE {FALSE}

\* no worker is running: update(newBatch) is taken as one step
NoPhase ==
  [pc |-> <<>>, slot |-> <<>>, reduce |-> "no", gather |-> "no", sane |-> TRUE,
   first |-> <<>>, cycle |-> 0]

\* the state after construction, lines 7-29
InitState(cfgs) ==
  /\ cfg \in cfgs
  /\ pendingBatches = <<>>
  /\ typicalTrgBatchWords \in (IF cfg.refBatchLabels # 0 THEN {0, 800} ELSE {0})
  /\ updateMultiplier = RInt(1)
  /\ first = TRUE
  /\ costScale = [r \in Procs |-> [factor |-> 0, noNanSeen |-> 0]]
  /\ blocked = FALSE
  /\ params = [s \in Slots |-> [h \in Shards |-> Unallocated]]
  /\ grads = [s \in Slots |-> [h \in Shards |-> "none"]]
  /\ aborted = "no"
  /\ numCalls = 0
  /\ batchesRead = 0
  /\ last = NoCall

InitWith(cfgs) == InitState(cfgs) /\ phase = NoPhase

\* update(newBatch), graph_group_sync.cpp:238-250, with the cycle it starts
Update ==
  /\ aborted = "no"
  /\ ~blocked
  /\ numCalls < MaxCalls
  /\ \E samples \in cfg.pool, mult \in cfg.mults :
       LET newBatch == [id |-> numCalls + 1, samples |-> samples]
       IN  \E out \in tryGetSubBatches(newBatch, mult) :
             IF out.abort # "no" THEN UpdateAbort(newBatch, mult, out)
             ELSE IF ~out.ready THEN UpdateNotReady(newBatch, mult, out)
             ELSE \E subBatches \in sortByWords(out.subBatches), bad \in Bads,
                     saving \in Savings, validating \in Validatings :
                    UpdateCycle(newBatch, mult, out, subBatches, bad,
                                saving, validating)

NoRound == rIn = RInt(0) /\ rOut = RInt(0) /\ rDone = FALSE

Init == InitWith(DynamicCfgs) /\ NoRound

Next == Update

Spec == Init /\ [][Next]_vars

InitStatic == InitWith(StaticCfgs) /\ NoRound

SpecStatic == InitStatic /\ [][Next]_vars

InitCycle == InitWith(CycleCfgs) /\ NoRound

SpecCycle == InitCycle /\ [][Next]_vars

\* dynamic runs on one process of 2 to 5 devices, with multipliers that let
\* the queue grow to three batches
RebalanceCfgs ==
  {[BaseCfg EXCEPT !.numDevs = d, !.mults = {<<1, 2>>, RInt(1), RInt(2), RInt(3)}] :
     d \in 2..5}

InitRebalance == InitWith(RebalanceCfgs) /\ NoRound

SpecRebalance == InitRebalance /\ [][Next]_vars

\* roundUpRatio applied on its own to one ratio
InitRound ==
  /\ InitWith({BaseCfg})
  /\ rIn \in {<<k, RatioDen>> : k \in 0..MaxRatioNum}
  /\ rOut = RInt(0)
  /\ rDone = FALSE

ApplyRoundUp ==
  /\ ~rDone
  /\ rOut' = roundUpRatio(rIn)
  /\ rDone' = TRUE
  /\ UNCHANGED <<cfg, pendingBatches, typicalTrgBatchWords, updateMultiplier,
                 first, costScale, blocked, phase, params, grads, aborted, numCalls,
                 batchesRead, last, rIn>>

NextRound == ApplyRoundUp

SpecRound == InitRound /\ [][NextRound]_vars

-----------------------------------------------------------------------------
(* One cycle step by step.  update(subBatches, numReadBatches) runs in every *)
(* process; comm_->foreach runs its lambda on the process's devices, one     *)
(* worker each, and returns when all of them are done; the scatter-reduce is *)
(* a collective the processes enter together.                                *)

MaxCycles == 2

PhaseCfgs ==
  {[BaseCfg EXCEPT !.numProcs = g[1], !.numDevs = g[2], !.costScale = cs,
                   !.quantizeBits = q] :
     g \in {<<1, 2>>, <<2, 1>>, <<2, 2>>}, cs \in BOOLEAN, q \in {0, 8}}

\* the slots of process p: its graphs_[0 .. devices_.size() - 1]
localSlots(p) == {s \in Slots : s[1] = p}

\* mutant: foreach returns without waiting for its workers
foreachReturnedAtOnce(p, done) == TRUE

\* comm_->foreach returns once its lambda has run on every local device
foreachReturned(p, done) == \A s \in localSlots(p) : phase.slot[s] = done

\* comm_->foreach starts its lambda on every local device
foreachStarted(p, running) ==
  [s \in Slots |-> IF s[1] = p THEN running ELSE phase.slot[s]]

\* a worker finishes the step it is in
workerDone(s, running, done) ==
  /\ phase.slot[s] = running
  /\ phase' = [phase EXCEPT !.slot[s] = done]

ProgramUnchanged ==
  UNCHANGED <<cfg, pendingBatches, typicalTrgBatchWords, updateMultiplier,
              first, costScale, blocked, params, grads, aborted, numCalls,
              batchesRead, last, rIn, rOut, rDone>>

InitPhase ==
  /\ InitState(PhaseCfgs)
  /\ NoRound
  /\ phase = [pc |-> [p \in Procs |-> "update"],
              slot |-> [s \in Slots |-> "idle"],
              reduce |-> "no", gather |-> "no", sane |-> TRUE,
              first |-> [p \in Procs |-> TRUE],
              cycle |-> 1]

\* lines 276-279 and 44-50: the first cycle starts initialize, whose first
\* foreach builds the graph and runs the initializing forward pass
InitializeForward(p) ==
  /\ phase.pc[p] = "update" /\ phase.first[p]
  /\ phase' = [phase EXCEPT !.pc[p] = "forward",
                            !.slot = foreachStarted(p, "forward")]
  /\ ProgramUnchanged

\* lines 45-49 on one device
ForwardDone(s) == workerDone(s, "forward", "forwarded") /\ ProgramUnchanged

\* lines 54-58: the second foreach copies the weights of graphs_[0]
InitializeCopy(p) ==
  /\ phase.pc[p] = "forward" /\ foreachReturned(p, "forwarded")
  /\ phase' = [phase EXCEPT !.pc[p] = "copy",
                            !.slot = foreachStarted(p, "copying")]
  /\ ProgramUnchanged

\* lines 55-57 on one device
CopyDone(s) == workerDone(s, "copying", "copied") /\ ProgramUnchanged

\* lines 61-66: with quantize-bits > 0 a third foreach quantizes every graph
InitializeQuantize(p) ==
  /\ phase.pc[p] = "copy" /\ foreachReturned(p, "copied")
  /\ cfg.quantizeBits > 0
  /\ phase' = [phase EXCEPT !.pc[p] = "quantize",
                            !.slot = foreachStarted(p, "quantizing")]
  /\ ProgramUnchanged

\* lines 65 and 366 on one device: quantizers_[idx]->quantize(graphs_[idx])
QuantizeDone(s) == workerDone(s, "quantizing", "quantized") /\ ProgramUnchanged

\* lines 280 and 286: first_ = false; the accumulation foreach starts
Accumulate(p) ==
  /\ \/ phase.pc[p] = "copy" /\ foreachReturned(p, "copied")
                               /\ cfg.quantizeBits = 0
     \/ phase.pc[p] = "quantize" /\ foreachReturned(p, "quantized")
                                   /\ phase.first[p]
     \/ phase.pc[p] = "update" /\ ~phase.first[p]
  /\ phase' = [phase EXCEPT !.pc[p] = "accumulate",
                            !.first[p] = firstAfterInitialize,
                            !.slot = foreachStarted(p, "accumulating")]
  /\ ProgramUnchanged

\* lines 292-308 on one device: the forward/backward steps of its sub-batches
BackwardDone(s) == workerDone(s, "accumulating", "preclip") /\ ProgramUnchanged

\* lines 310-323 on one device: the local pre-clip
PreClipDone(s) == workerDone(s, "preclip", "accumulated") /\ ProgramUnchanged

\* line 328: the process enters comm_->scatterReduceAndResetGrads()
CallScatterReduce(p) ==
  /\ phase.pc[p] = "accumulate" /\ foreachReturned(p, "accumulated")
  /\ phase' = [phase EXCEPT !.pc[p] = "scatterReduce"]
  /\ ProgramUnchanged

\* the collective exchanges the gradients once every process has entered it
ScatterReduceRuns ==
  /\ phase.reduce = "no"
  /\ \A p \in Procs : phase.pc[p] = "scatterReduce"
  /\ phase' = [phase EXCEPT !.reduce = "running"]
  /\ ProgramUnchanged

\* line 328 returns in every process; lines 337-338: whether the reduced
\* gradient is sane is the same for all of them
ScatterReduceCompletes ==
  /\ phase.reduce = "running"
  /\ \E sane \in (IF checkGradient THEN BOOLEAN ELSE {TRUE}) :
       phase' = [phase EXCEPT !.reduce = "complete", !.sane = sane,
                              !.pc = [p \in Procs |-> "reduced"]]
  /\ ProgramUnchanged

\* line 337: the health check, a foreach over the shards, when checkGradient
CheckNanOrNorm(p) ==
  /\ phase.pc[p] = "reduced" /\ checkGradient
  /\ phase' = [phase EXCEPT !.pc[p] = "checkNanOrNorm",
                            !.slot = foreachStarted(p, "checking")]
  /\ ProgramUnchanged

CheckDone(s) == workerDone(s, "checking", "checked") /\ ProgramUnchanged

\* the health check is over, or there is none (line 337)
checked(p) ==
  \/ phase.pc[p] = "checkNanOrNorm" /\ foreachReturned(p, "checked")
  \/ phase.pc[p] = "reduced" /\ ~checkGradient

\* line 356: the per-shard optimizer update of a sane cycle
ShardUpdate(p) ==
  /\ checked(p) /\ phase.sane
  /\ phase' = [phase EXCEPT !.pc[p] = "shardUpdate",
                            !.slot = foreachStarted(p, "updating")]
  /\ ProgramUnchanged

\* lines 346-353 on one shard
ShardUpdateDone(s) == workerDone(s, "updating", "updated") /\ ProgramUnchanged

\* line 379: the per-shard gradient reset of a skipped cycle
ShardReset(p) ==
  /\ checked(p) /\ ~phase.sane
  /\ phase' = [phase EXCEPT !.pc[p] = "shardReset",
                            !.slot = foreachStarted(p, "resetting")]
  /\ ProgramUnchanged

\* lines 371-376 on one shard
ShardResetDone(s) == workerDone(s, "resetting", "reset") /\ ProgramUnchanged

\* line 361: the process enters comm_->allGatherParams()
CallAllGatherParams(p) ==
  /\ phase.pc[p] = "shardUpdate" /\ foreachReturned(p, "updated")
  /\ phase' = [phase EXCEPT !.pc[p] = "allGatherParams"]
  /\ ProgramUnchanged

\* the collective distributes the shards once every process has entered it
AllGatherParamsRuns ==
  /\ phase.gather = "no"
  /\ \A p \in Procs : phase.pc[p] = "allGatherParams"
  /\ phase' = [phase EXCEPT !.gather = "running"]
  /\ ProgramUnchanged

\* line 361 returns in every process
AllGatherParamsCompletes ==
  /\ phase.gather = "running"
  /\ phase' = [phase EXCEPT !.gather = "complete",
                            !.pc = [p \in Procs |-> "gathered"]]
  /\ ProgramUnchanged

\* lines 365-366: with quantize-bits > 0 every graph is quantized again
Quantize(p) ==
  /\ phase.pc[p] = "gathered" /\ cfg.quantizeBits > 0
  /\ phase' = [phase EXCEPT !.pc[p] = "quantize",
                            !.slot = foreachStarted(p, "quantizing")]
  /\ ProgramUnchanged

\* line 407: update(subBatches, numReadBatches) returns
Return(p) ==
  /\ \/ phase.pc[p] = "gathered" /\ cfg.quantizeBits = 0
     \/ phase.pc[p] = "quantize" /\ foreachReturned(p, "quantized")
                                   /\ ~phase.first[p]
     \/ phase.pc[p] = "shardReset" /\ foreachReturned(p, "reset")
  /\ phase' = [phase EXCEPT !.pc[p] = "done"]
  /\ ProgramUnchanged

\* every process is called again with the next cycle's sub-batches
NextCycle ==
  /\ \A p \in Procs : phase.pc[p] = "done"
  /\ phase.cycle < MaxCycles
  /\ phase' = [phase EXCEPT !.pc = [p \in Procs |-> "update"],
                            !.slot = [s \in Slots |-> "idle"],
                            !.reduce = "no", !.gather = "no",
                            !.cycle = phase.cycle + 1]
  /\ ProgramUnchanged

NextPhase ==
  \/ \E p \in Procs : InitializeForward(p)
  \/ \E s \in Slots : ForwardDone(s)
  \/ \E p \in Procs : InitializeCopy(p)
  \/ \E s \in Slots : CopyDone(s)
  \/ \E p \in Procs : InitializeQuantize(p)
  \/ \E s \in Slots : QuantizeDone(s)
  \/ \E p \in Procs : Accumulate(p)
  \/ \E s \in Slots : BackwardDone(s)
  \/ \E s \in Slots : PreClipDone(s)
  \/ \E p \in Procs : CallScatterReduce(p)
  \/ ScatterReduceRuns
  \/ ScatterReduceCompletes
  \/ \E p \in Procs : CheckNanOrNorm(p)
  \/ \E s \in Slots : CheckDone(s)
  \/ \E p \in Procs : ShardUpdate(p)
  \/ \E s \in Slots : ShardUpdateDone(s)
  \/ \E p \in Procs : ShardReset(p)
  \/ \E s \in Slots : ShardResetDone(s)
  \/ \E p \in Procs : CallAllGatherParams(p)
  \/ AllGatherParamsRuns
  \/ AllGatherParamsCompletes
  \/ \E p \in Procs : Quantize(p)
  \/ \E p \in Procs : Return(p)
  \/ NextCycle

SpecPhase == InitPhase /\ [][NextPhase]_vars

-----------------------------------------------------------------------------
(* The accumulation foreach of one cycle, lines 286-324, step by step: every *)
(* device runs the loop of lines 292-308 over the sub-batches of the cycle.  *)
(* phase holds the sub-batches, and for every slot its position, the value   *)
(* of warp, the indexes it has run forward/backward on, and its entry of     *)
(* localDeviceLosses.                                                        *)

\* the largest number of sub-batches of a cycle
MaxSubBatches == 5

LoopCfgs ==
  {[BaseCfg EXCEPT !.numProcs = g[1], !.numDevs = g[2]] :
     g \in {<<1, 2>>, <<2, 1>>, <<2, 2>>}}

\* the sub-batches of a cycle, as update(subBatches, numReadBatches) gets them
LoopInputs ==
  {[k \in 1..n |-> [id |-> k, samples |-> batchOfSize(n + 1 - k)]] :
     n \in 1..MaxSubBatches}

InitLoop ==
  /\ InitState(LoopCfgs)
  /\ NoRound
  /\ \E subBatches \in LoopInputs :
       phase = [subBatches |-> subBatches,
                slot |-> [s \in Slots |-> "loop"],
                warp |-> [s \in Slots |-> 0],
                ran  |-> [s \in Slots |-> <<>>],
                localDeviceLosses |-> [s \in Slots |-> StaticLoss],
                grads |-> initialGrads]

LoopUnchanged ==
  UNCHANGED <<cfg, pendingBatches, typicalTrgBatchWords, updateMultiplier,
              first, costScale, blocked, params, grads, aborted, numCalls,
              batchesRead, last, rIn, rOut, rDone>>

\* mutant: the loop counts in twos
nextWarpSkipping(warp) == warp + 2

\* line 292: warp++
nextWarp(warp) == warp + 1

\* lines 294-307: the device has a sub-batch at this step and runs
\* forward/backward on it
LoopStep(s) ==
  /\ phase.slot[s] = "loop"
  /\ getSubBatch(phase.subBatches, phase.warp[s], s[2], s[1]) # <<>>
  /\ LET subBatch == getSubBatch(phase.subBatches, phase.warp[s], s[2], s[1])[1]
     IN  phase' =
           [phase EXCEPT
              !.ran[s] = Append(@, subBatchIndex(phase.warp[s], s[2], s[1])),
              !.localDeviceLosses[s] = addLoss(@, build(subBatch)),
              !.grads[s] = [h \in Shards |-> addGrad(@[h], "finite")],
              !.warp[s] = nextWarp(@)]
  /\ LoopUnchanged

\* lines 295-296: if (!subBatch) break
LoopBreak(s) ==
  /\ phase.slot[s] = "loop"
  /\ getSubBatch(phase.subBatches, phase.warp[s], s[2], s[1]) = <<>>
  /\ phase' = [phase EXCEPT !.slot[s] = "preclip"]
  /\ LoopUnchanged

\* lines 310-323: the local pre-clip and the end of the lambda
LoopPreClip(s) ==
  /\ phase.slot[s] = "preclip"
  /\ phase' = [phase EXCEPT !.slot[s] = "accumulated"]
  /\ LoopUnchanged

NextLoop ==
  \/ \E s \in Slots : LoopStep(s)
  \/ \E s \in Slots : LoopBreak(s)
  \/ \E s \in Slots : LoopPreClip(s)

SpecLoop == InitLoop /\ [][NextLoop]_vars

\* The buffers a worker touches while it runs the body of a foreach on slot
\* s: <<kind, slot>>, kind one of "vals", "grads", "loss", "optimizer",
\* "quantizer".

\* mutant: the copy goes from the worker's graph to graph 0
copyWritesGraph0(s) == IF s[2] > 0 THEN {<<"vals", <<s[1], 0>>>>} ELSE {}

\* line 56: graphs_[i]->params()->vals()->copyFrom(...), for i > 0
copyWrites(s) == IF s[2] > 0 THEN {<<"vals", s>>} ELSE {}

\* line 56: ...copyFrom(graphs_[0]->params()->vals())
copyReads(s) == IF s[2] > 0 THEN {<<"vals", <<s[1], 0>>>>} ELSE {}

\* what the worker of slot s writes in the step it is in
workerWrites(s) ==
  LET step == phase.slot[s]
  IN  IF step = "forward" THEN {<<"vals", s>>, <<"grads", s>>}         \* 45-48
      ELSE IF step = "copying" THEN copyWrites(s)                      \* 55-56
      ELSE IF step = "quantizing" THEN {<<"vals", s>>, <<"quantizer", s>>} \* 65, 366
      ELSE IF step = "accumulating" THEN {<<"grads", s>>, <<"loss", s>>}  \* 298-307
      ELSE IF step = "preclip" THEN {<<"grads", s>>}                   \* 319
      ELSE IF step = "updating"
           THEN {<<"vals", s>>, <<"grads", s>>, <<"optimizer", s>>}    \* 347-351
      ELSE IF step = "resetting" THEN {<<"grads", s>>}                 \* 373-374
      ELSE {}

\* mutant: the update body reads the cost-scale factor as well
costScaleReadersUpdate == {"accumulating", "updating"}

\* lines 299-300: the accumulation body reads costScaleFactor_
costScaleReaders == {"accumulating"}

\* the members of the process's SyncGraphGroup a worker's body reads
membersRead(s) ==
  IF phase.slot[s] \in costScaleReaders THEN {<<"costScale", s[1]>>} ELSE {}

\* what the worker of slot s reads of the slots' state in the step it is in
slotStateRead(s) ==
  LET step == phase.slot[s]
  IN  IF step = "copying" THEN copyReads(s)
      ELSE IF step = "quantizing" THEN {<<"vals", s>>, <<"quantizer", s>>}
      ELSE IF step = "accumulating" THEN {<<"vals", s>>, <<"grads", s>>, <<"loss", s>>}
      ELSE IF step = "preclip" THEN {<<"grads", s>>}
      ELSE IF step = "checking" THEN {<<"grads", s>>}                  \* 333-335
      ELSE IF step = "updating"
           THEN {<<"vals", s>>, <<"grads", s>>, <<"optimizer", s>>}
      ELSE {}

\* what the worker of slot s reads in the step it is in
workerReads(s) == slotStateRead(s) \cup membersRead(s)

-----------------------------------------------------------------------------
(* Claims about roundUpRatio, checked under SpecRound *)

\* the powers of two 2^0 .. 2^MaxExp

PowersOfTwo == {Pow2(n) : n \in 0..MaxExp}

\* the smallest multiple of p that is >= r
MultipleAtLeast(r, p) == ((Num(r) + Den(r) * p - 1) \div (Den(r) * p)) * p

\* (v - r) / r <= 25%, for an integer v >= r > 0
ErrorWithinQuarter(r, v) == 4 * (v * Den(r) - Num(r)) <= Num(r)

\* the powers of two whose rounding of r keeps the error within 25%
GoodPowers(r) ==
  {p \in PowersOfTwo : ErrorWithinQuarter(r, MultipleAtLeast(r, p))}

\* the smallest value >= r that is a multiple of a power of two with an error
\* within 25%, or r when there is none
SmallestRounding(r) ==
  IF GoodPowers(r) = {} THEN r
  ELSE RInt(CHOOSE v \in {MultipleAtLeast(r, p) : p \in GoodPowers(r)} :
              \A p \in GoodPowers(r) : v <= MultipleAtLeast(r, p))

\* r rounded up to a multiple of the largest power of two that keeps the error
\* within 25%, or r when there is none
CoarsestRounding(r) ==
  IF GoodPowers(r) = {} THEN r
  ELSE RInt(MultipleAtLeast(r, CHOOSE p \in GoodPowers(r) :
                                 \A q \in GoodPowers(r) : q <= p))

\* C7: roundUpRatio(r) >= r and (roundUpRatio(r) - r) / r <= 0.25 for every
\* r > 0, and roundUpRatio(0) = 0.
C7_RoundingInvariant ==
  rDone =>
    /\ Num(rIn) > 0 =>
         /\ RLeq(rIn, rOut)
         /\ 4 * (Num(rOut) * Den(rIn) - Num(rIn) * Den(rOut))
              <= Num(rIn) * Den(rOut)
    /\ Num(rIn) = 0 => rOut = rIn

\* C7 witness: a ratio that was really rounded up
C7_Witness == rDone /\ Num(rIn) > 0 /\ RLess(rIn, rOut)

\* C8 as stated: roundUpRatio(r) is the smallest value >= r that is a multiple
\* of a power of two with a relative error of at most 25%, or r itself.
C8_SmallestRounding ==
  (rDone /\ Num(rIn) > 0) => REq(rOut, SmallestRounding(rIn))

\* C8 amended: roundUpRatio(r) is r rounded up to a multiple of the largest
\* power of two 2^n (n >= 0) for which that rounding has a relative error of
\* at most 25%; when no power of two qualifies it is r unchanged.
C8_CoarsestRounding ==
  (rDone /\ Num(rIn) > 0) => REq(rOut, CoarsestRounding(rIn))

\* C8 witness: a ratio for which the code's result is not the smallest rounding
C8_Witness ==
  rDone /\ Num(rIn) > 0 /\ ~REq(rOut, SmallestRounding(rIn))
          /\ GoodPowers(rIn) # {}

-----------------------------------------------------------------------------
(* Claims about the batch accumulator in dynamic mode, checked under Spec *)

\* the queue the call worked on: the pending queue with newBatch appended
Appended == Append(pendingBatches, last'.newBatch)

\* sub is a piece of batch b: same origin, a run of consecutive sentences
DerivesFrom(sub, b) ==
  /\ sub.id = b.id
  /\ \E i \in 1..size(b), j \in 1..size(b) : sub.samples = SubSeq(b.samples, i, j)

\* C1: in dynamic mode tryGetSubBatches is ready, and hands off the queue, if
\* and only if the queue with the new batch appended is at least as long as
\* the target ratio; the queue never shrinks while it is shorter than that.
C1_ReadyIffEnough ==
  [][(cfg.dynamic /\ last'.kind \in {"notReady", "cycle"}) =>
       /\ (last'.kind = "cycle") <=> RLeq(last'.out.ratio, RInt(Len(Appended)))
       /\ Len(pendingBatches') < Len(Appended)
            => RLeq(last'.out.ratio, RInt(Len(Appended)))
       /\ last'.kind = "notReady" => pendingBatches' = Appended]_vars

\* C1 witness: a ready call on a queue of two or more batches, with a ratio
\* above 1
C1_Witness ==
  /\ cfg.dynamic /\ last.kind = "cycle"
  /\ last.out.queueLength >= 2
  /\ RLess(RInt(1), last.out.ratio)

\* C2 as stated: a call that is not ready changes nothing but the queue, to
\* which it appends newBatch.
C2_OnlyAppend ==
  [][last'.kind = "notReady" =>
       /\ pendingBatches' = Appended
       /\ UNCHANGED <<typicalTrgBatchWords, first, updateMultiplier, costScale,
                      params, grads, batchesRead, aborted>>]_vars

\* C2 amended: a call that is not ready appends newBatch to the queue and,
\* when a reference label count (mini-batch-words) is configured, updates the
\* running average of target words per batch; the first-call flag, the update
\* multiplier, the cost-scale factor, parameters and gradients are unchanged
\* and nothing is reported to the scheduler.
C2_AppendAndAverage ==
  [][last'.kind = "notReady" =>
       /\ pendingBatches' = Appended
       /\ cfg.refBatchLabels = 0 => UNCHANGED typicalTrgBatchWords
       /\ UNCHANGED <<first, updateMultiplier, costScale, params, grads,
                      batchesRead, aborted>>]_vars

\* C2 witness: a call that is not ready, made after the first cycle, with a
\* reference label count configured
C2_Witness ==
  /\ last.kind = "notReady" /\ ~first
  /\ cfg.refBatchLabels # 0
  /\ typicalTrgBatchWords # 800

\* C3: after every ready return in dynamic mode the queue is empty, and every
\* sub-batch handed off is a piece of a batch appended since the previous
\* drain (the queue holds exactly the batches of the calls made since then).
C3_DrainedAtomically ==
  /\ [](cfg.dynamic /\ aborted = "no" =>
          \A j \in 1..Len(pendingBatches) :
            pendingBatches[j].id = numCalls - Len(pendingBatches) + j)
  /\ [][(cfg.dynamic /\ last'.kind = "cycle") =>
          /\ pendingBatches' = <<>>
          /\ \A k \in 1..Len(last'.out.subBatches) :
               \E j \in 1..Len(Appended) :
                 DerivesFrom(last'.out.subBatches[k], Appended[j])]_vars

\* C3 witness: a ready call that hands off pieces of two queued batches
C3_Witness ==
  /\ cfg.dynamic /\ last.kind = "cycle" /\ pendingBatches = <<>>
  /\ last.out.numReadBatches >= 2
  /\ Len(last.out.subBatches) > last.out.numReadBatches

\* C4: in dynamic mode the number of batches passed to update equals the sum
\* of the numReadBatches reported to the scheduler plus the length of the
\* pending queue, and each ready call reports the queue length it found.
C4_BatchConservation ==
  cfg.dynamic =>
    /\ numCalls = batchesRead + Len(pendingBatches)
    /\ last.kind = "cycle" => last.report.numReadBatches = last.out.queueLength

\* C4 witness: two cycles, the last over several batches that were rebalanced
\* into a different number of sub-batches
C4_Witness ==
  /\ cfg.dynamic /\ last.kind = "cycle"
  /\ last.report.numReadBatches >= 2
  /\ batchesRead > last.report.numReadBatches
  /\ Len(last.out.subBatches) # last.report.numReadBatches

\* C9: after rebalancing the number of sub-batches never exceeds
\* numWarps * warpSize, numWarps = ceil(queue length / warpSize); the abort
\* "somehow split into too many batches" is never reached.
C9_RebalanceBound ==
  /\ aborted # "tooManyBatches"
  /\ (cfg.dynamic /\ last.kind = "cycle") =>
       Len(last.out.subBatches)
         <= CeilDiv(last.out.queueLength, cfg.numDevs * cfg.numProcs)
              * (cfg.numDevs * cfg.numProcs)

\* C9 witness: a queue of more than one warp, rebalanced so that it fills
\* every device of its warps
C9_Witness ==
  /\ cfg.dynamic /\ last.kind = "cycle"
  /\ last.out.queueLength > cfg.numDevs * cfg.numProcs
  /\ Len(last.out.subBatches) > last.out.queueLength
  /\ Len(last.out.subBatches)
       = CeilDiv(last.out.queueLength, cfg.numDevs * cfg.numProcs)
           * (cfg.numDevs * cfg.numProcs)

-----------------------------------------------------------------------------
(* Claims about static mode, checked under SpecStatic *)

\* the number of sub-batches static mode asks for: ceil(delay) * warpSize
StaticPieces == RCeil(cfg.delay) * (cfg.numDevs * cfg.numProcs)

\* the size limit of a sub-batch: ceil(S / (ceil(delay) * warpSize))
StaticPieceSize == CeilDiv(size(last.newBatch), StaticPieces)

\* sizes of the sub-batches are at most the limit and add up to the batch
StaticSizesAddUp ==
  /\ \A k \in 1..Len(last.out.subBatches) :
       size(last.out.subBatches[k]) <= StaticPieceSize
  /\ SumSeq([k \in 1..Len(last.out.subBatches) |->
               size(last.out.subBatches[k])]) = size(last.newBatch)

C6_StaticNeverBuffers ==
  ~cfg.dynamic =>
    /\ pendingBatches = <<>>
    /\ last.kind # "none" =>
         /\ last.kind = "cycle"
         /\ last.out.ready
         /\ last.report.numReadBatches = 1
    /\ batchesRead = numCalls

\* C6 witness: three static calls in a row, each one a cycle
C6_Witness ==
  /\ ~cfg.dynamic /\ numCalls >= 3
  /\ last.kind = "cycle" /\ pendingBatches = <<>>

-----------------------------------------------------------------------------
(* Claims about the update cycle, checked under SpecCycle *)

\* some shard of the reduced gradient is not finite
ReducedNonFinite(c) == \E sh \in Slots : c.reduced[sh][sh] = "nonfinite"

\* gradient checking is configured: cost scaling, dynamic gradient scaling or
\* the NaN check
CheckingEnabled ==
  cfg.costScale \/ cfg.dynamicGradientScaling \/ cfg.checkGradientNan

\* the cost-scale factor of every process went down
CostScaleDecreased ==
  \A r \in Procs : costScale'[r].factor < costScale[r].factor

\* the cycle applied no update: parameters are those of before the cycle and
\* the cost-scale factor went down
SkippedUpdate ==
  /\ params' = last'.paramsBefore
  /\ CostScaleDecreased
  /\ aborted' = "no"

\* the update phase of the cycle changed no parameter, the cost-scale factor
\* went down, and a cycle that ran to its end left the parameters of before
SkippedUpdatePhase ==
  /\ last'.paramsUpdated = last'.paramsBefore
  /\ ~blocked' => params' = last'.paramsBefore
  /\ CostScaleDecreased
  /\ aborted' = "no"

-----------------------------------------------------------------------------
(* Claims about the replicas' parameters, checked under SpecCycle *)

\* the slot the others are compared with: device 0 of process 0
Slot0 == <<0, 0>>

\* C11: after initialization, every slot's parameters, on every process of
\* the run, are identical to slot 0's parameters.
C11_AllEqualSlot0 ==
  (last.kind = "cycle" /\ last.didInit) =>
    \A s \in Slots : last.paramsBefore[s] = last.paramsBefore[Slot0]

\* C12: at the end of every ready cycle, whether the update was applied or
\* skipped and whether or not quantization, saving or validation ran, all
\* slots of all processes hold identical parameter values.
C12_ReplicasIdentical ==
  last.kind = "cycle" => \A s \in Slots : params[s] = params[Slot0]

\* C19: in every cycle all processes take the same branch and issue the same
\* sequence of collective operations, so that no process waits forever in a
\* collective the others never enter.
C19_SameCollectives ==
  last.kind = "cycle" =>
    /\ \A rank \in Procs :
         collectives(rank, last.didInit, last.sane, last.saving, last.validating)
           = collectives(0, last.didInit, last.sane, last.saving, last.validating)
    /\ ~blocked

-----------------------------------------------------------------------------
(* Claims about the life cycle of the coordinator, checked under Spec *)

\* the events of the last cycle on process rank
LastEvents(rank) ==
  cycleEvents(rank, last.didInit, last.sane, last.saving, last.validating)

\* the position of event in the sequence events, 0 if it does not occur
PositionIn(events, event) ==
  IF \E k \in 1..Len(events) : events[k] = event
  THEN CHOOSE k \in 1..Len(events) :
         events[k] = event /\ \A j \in 1..(k - 1) : events[j] # event
  ELSE 0

\* C13: the coordinator leaves Uninitialized exactly once, on the first call
\* that is ready, and before any forward/backward of that cycle; initialize
\* runs in that cycle and in no other, the update multiplier is written only
\* then, and the coordinator never becomes Uninitialized again.
C13_InitializedOnce ==
  /\ [](first <=> batchesRead = 0)
  /\ [](last.kind = "cycle" =>
          /\ last.didInit <=> batchesRead = last.report.numReadBatches
          /\ last.didInit =>
               \A rank \in Procs :
                 /\ PositionIn(LastEvents(rank), "initialize") = 1
                 /\ PositionIn(LastEvents(rank), "accumulate") = 2)
  /\ [][~first => ~first']_vars
  /\ [][updateMultiplier' # updateMultiplier => (first /\ ~first')]_vars

\* C13 witness: a second cycle, after not-ready calls, with the update
\* multiplier that the first cycle wrote
C13_Witness ==
  /\ ~first /\ last.kind = "cycle" /\ ~last.didInit
  /\ batchesRead > last.report.numReadBatches
  /\ last.report.numReadBatches >= 2
  /\ updateMultiplier # RInt(1)

\* a comes before b in events, when both occur
Before(events, a, b) ==
  (PositionIn(events, a) # 0 /\ PositionIn(events, b) # 0)
    => PositionIn(events, a) < PositionIn(events, b)

\* accumulation, scatter-reduce, health check, update with all-gather or
\* zero-and-skip, report to the scheduler, save, validation, in this order
PhasesInOrder(events, sane) ==
  /\ PositionIn(events, "accumulate") # 0
  /\ PositionIn(events, "scatterReduceAndResetGrads") # 0
  /\ PositionIn(events, "schedulerUpdate") # 0
  /\ Before(events, "accumulate", "scatterReduceAndResetGrads")
  /\ Before(events, "scatterReduceAndResetGrads", "checkNanOrNorm")
  /\ sane => /\ PositionIn(events, "optimizerUpdate") # 0
             /\ PositionIn(events, "resetGrads") = 0
             /\ Before(events, "scatterReduceAndResetGrads", "optimizerUpdate")
             /\ Before(events, "checkNanOrNorm", "optimizerUpdate")
             /\ Before(events, "optimizerUpdate", "allGatherParams")
             /\ Before(events, "allGatherParams", "schedulerUpdate")
  /\ ~sane => /\ PositionIn(events, "resetGrads") # 0
              /\ PositionIn(events, "optimizerUpdate") = 0
              /\ Before(events, "checkNanOrNorm", "resetGrads")
              /\ Before(events, "resetGrads", "schedulerUpdate")
  /\ Before(events, "schedulerUpdate", "save")
  /\ Before(events, "schedulerUpdate", "swapWithSmoothed")
  /\ Before(events, "save", "swapWithSmoothed")
  /\ Before(events, "swapWithSmoothed", "validate")
  /\ Before(events, "validate", "swapWithOriginal")

\* the cost-scale event adjust comes after the report, the save and the
\* validation of the cycle
AfterReporting(events, adjust) ==
  /\ Before(events, "schedulerUpdate", adjust)
  /\ Before(events, "save", adjust)
  /\ Before(events, "swapWithOriginal", adjust)

\* C14 as stated: the phases of every cycle occur in order, and any change of
\* the cost-scale factor, decrease as well as increase, comes after the
\* cycle's scheduler report, save and validation.
C14_CostScaleLast ==
  last.kind = "cycle" =>
    \A rank \in Procs :
      /\ PhasesInOrder(LastEvents(rank), last.sane)
      /\ AfterReporting(LastEvents(rank), "increaseCostScaleFactor")
      /\ AfterReporting(LastEvents(rank), "decreaseCostScaleFactor")

\* C14 amended: the phases of every cycle occur in order; the increase of the
\* cost-scale factor after a sane update is the last step of the cycle, after
\* scheduler report, save and validation, whereas the decrease belongs to the
\* skip branch: it follows the gradient reset and precedes the scheduler
\* report, the save and the validation.
C14_IncreaseLastDecreaseInSkip ==
  last.kind = "cycle" =>
    \A rank \in Procs :
      LET events == LastEvents(rank) IN
      /\ PhasesInOrder(events, last.sane)
      /\ last.sane =>
           /\ events[Len(events)] = "increaseCostScaleFactor"
           /\ AfterReporting(events, "increaseCostScaleFactor")
           /\ PositionIn(events, "decreaseCostScaleFactor") = 0
      /\ ~last.sane =>
           /\ PositionIn(events, "decreaseCostScaleFactor")
                = PositionIn(events, "resetGrads") + 1
           /\ PositionIn(events, "decreaseCostScaleFactor")
                < PositionIn(events, "schedulerUpdate")
           /\ PositionIn(events, "increaseCostScaleFactor") = 0

\* C14 witness: a skipped cycle that also saved and validated
C14_Witness ==
  /\ last.kind = "cycle" /\ ~last.sane
  /\ last.saving /\ last.validating /\ ~blocked
  /\ \A r \in Procs : costScale[r].factor < 0

-----------------------------------------------------------------------------
(* Claims about the assignment of sub-batches to slots *)

\* the (slot, step) pairs that process the sub-batch of index k, of n
ProcessedBy(k, n) ==
  {sw \in Slots \X (0..n) :
     /\ sw[2] < Len(slotIndexes(n, sw[1], 0))
     /\ slotIndexes(n, sw[1], 0)[sw[2] + 1] = k}

\* C15: every sub-batch of a cycle is processed by exactly one (process,
\* local device, step) triple: none is skipped, none is processed twice; the
\* batches a slot runs on are the ones at its indexes.
C15_Partition ==
  last.kind = "cycle" =>
    LET n == Len(last.subBatches) IN
    /\ \A k \in 0..(n - 1) : Cardinality(ProcessedBy(k, n)) = 1
    /\ \A s \in Slots :
         slotBatches(last.subBatches, s, 0)
           = [w \in 1..Len(slotIndexes(n, s, 0)) |->
                last.subBatches[slotIndexes(n, s, 0)[w] + 1]]

\* C15 witness: on a grid of 2 processes with 2 devices each, more sub-batches
\* than slots, the last step not filling every slot
C15_Witness ==
  /\ last.kind = "cycle"
  /\ cfg.numProcs = 2 /\ cfg.numDevs = 2
  /\ Len(last.subBatches) > 4 /\ Len(last.subBatches) < 8

\* a and b hold the same elements, each as many times
SameElements(a, b) ==
  /\ Len(a) = Len(b)
  /\ \A i \in 1..Len(a) :
       Cardinality({j \in 1..Len(a) : a[j] = a[i]})
         = Cardinality({j \in 1..Len(b) : b[j] = a[i]})

\* the sentences of the sub-batches of s, one sub-batch after the other
SentencesOf(s) == Concat([k \in 1..Len(s) |-> s[k].samples])

\* C16 as stated: the sequence the slot-assignment index addresses is the one
\* the batch accumulator produced, in the same order: encounter order of the
\* split in static mode, non-increasing target width in dynamic mode.
C16_AccumulatorOrder ==
  last.kind = "cycle" =>
    /\ last.subBatches = last.out.subBatches
    /\ ~cfg.dynamic => SentencesOf(last.subBatches) = last.newBatch.samples
    /\ cfg.dynamic =>
         \A k \in 1..(Len(last.subBatches) - 1) :
           widthTrg(last.subBatches[k]) >= widthTrg(last.subBatches[k + 1])

\* C16 amended: the sequence the slot-assignment index addresses holds the
\* sub-batches the batch accumulator produced, re-sorted by update(subBatches,
\* n) in non-increasing order of their total target words.
C16_SortedByWords ==
  last.kind = "cycle" =>
    /\ SameElements(last.subBatches, last.out.subBatches)
    /\ \A k \in 1..(Len(last.subBatches) - 1) :
         wordsTrg(last.subBatches[k]) >= wordsTrg(last.subBatches[k + 1])

\* C16 witness: a static cycle whose sub-batches are not assigned in the
\* encounter order of the split
C16_Witness ==
  /\ last.kind = "cycle" /\ ~cfg.dynamic
  /\ SentencesOf(last.out.subBatches) = last.newBatch.samples
  /\ last.subBatches # last.out.subBatches

\* the float a equals the float b divided by the count n
IsQuotient(a, b, n) ==
  /\ Den(a) = 0 <=> Den(b) = 0
  /\ Num(a) * Den(b) * n = Num(b) * Den(a)

\* C17: in a cycle with an applied update the gradient norm reported to the
\* scheduler is the aggregated update norm divided by the cycle's total
\* target-label count when normalize-gradient is off, and the aggregated update
\* norm itself when it is on; in a skipped cycle it is 0.
C17_ReportedGradNorm ==
  last.kind = "cycle" =>
    LET norm  == updateNorm(last.reduced)
        words == totalTrgWords(last.subBatches)
        gradNorm == last.report.gradNorm
    IN  /\ (last.sane /\ ~cfg.normalizeGradient) => IsQuotient(gradNorm, norm, words)
        /\ (last.sane /\ cfg.normalizeGradient) => IsQuotient(gradNorm, norm, 1)
        /\ ~last.sane => IsQuotient(gradNorm, RInt(0), 1)

\* C17 witness: an applied update whose norm is a positive number, reported
\* divided by more than one target label
C17_Witness ==
  /\ last.kind = "cycle" /\ last.sane /\ ~cfg.normalizeGradient
  /\ totalTrgWords(last.subBatches) > 1
  /\ Num(updateNorm(last.reduced)) > 0
  /\ RLess(last.report.gradNorm, updateNorm(last.reduced))

\* C17 second case reached: normalize-gradient on, and a skipped cycle
C17_WitnessNormalized ==
  /\ last.kind = "cycle" /\ last.sane /\ cfg.normalizeGradient
  /\ last.report.gradNorm = updateNorm(last.reduced)
  /\ Num(updateNorm(last.reduced)) > 0

\* every region of every slot's gradient buffer is zero
AllZero(g) == \A s \in Slots : \A h \in Shards : g[s][h] = "zero"

\* C18: after initialization every cycle starts its accumulation with every
\* slot's whole gradient buffer zero, whether the cycles before it applied
\* their update or skipped it, and what a cycle accumulates is still in the
\* buffers when the scatter-reduce sums them.
C18_NoStaleGradient ==
  [][last'.kind = "cycle" /\ numCalls' # numCalls =>
       /\ AllZero(IF first THEN initialGrads ELSE grads)
       /\ \A sh \in Shards : last'.reduced[sh][sh] # "zero"
       /\ AllZero(grads')]_vars

\* C18 witness: a cycle after a skipped cycle has run, and has left the
\* buffers zero again
C18_Witness ==
  /\ last.kind = "cycle" /\ ~last.didInit /\ ~first
  /\ numCalls >= 2
  /\ ~last.sane
  /\ AllZero(grads)

\* the slot's worker is in its forward/backward accumulation or its pre-clip
Accumulating(s) == phase.slot[s] \in {"accumulating", "preclip"}

\* the slot's worker has not finished its initializing forward pass
NotForwarded(s) == phase.slot[s] \in {"idle", "forward"}

\* the slot's worker copies the weights of graph 0 to its graph (only the
\* workers of the graphs after graph 0 copy, line 55)
Copying(s) == phase.slot[s] = "copying" /\ s[2] > 0

\* the barriers of a cycle: the scatter-reduce never runs while a slot of any
\* process is still in its forward/backward accumulation or its local
\* pre-clip, and the health check and the per-shard update never start before
\* the scatter-reduce has completed
CycleBarrier ==
  /\ phase.reduce = "running" => \A s \in Slots : phase.slot[s] = "accumulated"
  /\ \A s \in Slots : Accumulating(s) => phase.reduce = "no"
  /\ \A p \in Procs :
       phase.pc[p] \in {"checkNanOrNorm", "shardUpdate", "shardReset"}
         => phase.reduce = "complete"
  /\ \A s \in Slots :
       phase.slot[s] \in {"checking", "updating", "resetting"}
         => phase.reduce = "complete"

\* C20 as stated: the barriers of a cycle hold, and in initialize the copy of
\* slot 0's weights starts only after every slot, of whatever process, has
\* finished its initializing forward pass.
C20_PhaseBarrierAllSlots ==
  /\ CycleBarrier
  /\ \A s \in Slots :
       Copying(s) => \A t \in Slots : ~NotForwarded(t)

\* C20 amended: the barriers of a cycle hold, and in initialize the copy of
\* the weights of a process's graph 0 starts only after every slot of that
\* process, graph 0 included, has finished its initializing forward pass.
C20_PhaseBarrier ==
  /\ CycleBarrier
  /\ \A s \in Slots :
       Copying(s) => \A t \in localSlots(s[1]) : ~NotForwarded(t)

\* C20 witness: a worker of one process copies the weights of graph 0; the
\* workers of its process have finished their forward pass, a worker of the
\* other process has not
C20_Witness ==
  /\ cfg.numProcs = 2 /\ cfg.numDevs = 2
  /\ \E s \in Slots :
       /\ Copying(s)
       /\ \E t \in Slots : t[1] # s[1] /\ NotForwarded(t)

\* reached as well: the scatter-reduce of the second cycle runs between two
\* processes of two devices each
C20_ReduceReached ==
  /\ cfg.numProcs = 2 /\ cfg.numDevs = 2
  /\ phase.cycle = 2
  /\ phase.reduce = "running"

\* the state of slot s: its graph's parameters and gradients, its loss
\* accumulator entry, its optimizer shard, its quantizer
OwnState(s) ==
  {<<kind, s>> : kind \in {"vals", "grads", "loss", "optimizer", "quantizer"}}

\* C21: in every parallel per-slot phase the worker of a slot writes only the
\* slot's own state, and no buffer is written by one worker while another
\* worker writes or reads it.
C21_ExclusiveWrites ==
  \A s \in Slots :
    /\ workerWrites(s) \subseteq OwnState(s)
    /\ \A t \in Slots \ {s} :
         workerWrites(s) \cap (workerWrites(t) \cup workerReads(t)) = {}

\* C21 witness: two workers of one process run the optimizer update at the
\* same time, each on its own shard
C21_Witness ==
  \E s \in Slots, t \in Slots :
    /\ s # t /\ s[1] = t[1]
    /\ phase.slot[s] = "updating" /\ phase.slot[t] = "updating"
    /\ workerWrites(s) # {} /\ workerWrites(t) # {}

\* reached as well: a worker copies from graph 0 while the worker of graph 0
\* runs the same foreach
C21_CopyReached ==
  \E s \in Slots, t \in Slots :
    /\ s[1] = t[1] /\ s[2] > 0 /\ t[2] = 0
    /\ phase.slot[s] = "copying" /\ phase.slot[t] = "copying"
    /\ copyReads(s) = {<<"vals", t>>}

\* the pending batch queue and the cost-scale state of process p
CoordinatorState(p) == {<<"pendingBatches", p>>, <<"costScale", p>>}

\* the coordinating thread of process p waits in a foreach
InForeach(p) ==
  phase.pc[p] \in {"forward", "copy", "quantize", "accumulate", "checkNanOrNorm",
                   "shardUpdate", "shardReset"}

\* C22 as stated: no worker body reads or writes the pending batch queue or
\* the cost-scale state.
C22_WorkersNeverAccess ==
  \A s \in Slots :
    (workerReads(s) \cup workerWrites(s)) \cap CoordinatorState(s[1]) = {}

\* C22 amended: no worker body writes the pending batch queue or the
\* cost-scale state, and none reads the pending batch queue; the body of the
\* accumulation foreach, and no other, reads the cost-scale factor, while the
\* coordinating thread waits in that foreach.
C22_WorkersReadCostScaleOnly ==
  \A s \in Slots :
    /\ workerWrites(s) \cap CoordinatorState(s[1]) = {}
    /\ <<"pendingBatches", s[1]>> \notin workerReads(s)
    /\ <<"costScale", s[1]>> \in workerReads(s)
         => phase.slot[s] = "accumulating" /\ phase.pc[s[1]] = "accumulate"
    /\ phase.slot[s] = "accumulating" => <<"costScale", s[1]>> \in workerReads(s)

\* C22 witness: two workers of a process read the cost-scale factor in their
\* accumulation
C22_Witness ==
  \E s \in Slots, t \in Slots :
    /\ s # t /\ s[1] = t[1]
    /\ <<"costScale", s[1]>> \in workerReads(s) \cap workerReads(t)
    /\ InForeach(s[1])

\* the one cost-scale signal process r issues in the step: the decrease when
\* the gradient norm is not finite, the increase when it is
OneSignal(r) ==
  costScale'[r] = IF last'.sane THEN increaseCostScaleFactor(costScale[r])
                  ELSE decreaseCostScaleFactor(costScale[r])

\* the cost-scale rule on the processes whose cycle runs to its end
CostScaleRuleWhenCompleted ==
  [][/\ last'.kind = "cycle" /\ numCalls' # numCalls =>
          \A r \in Procs : (~blocked' \/ ~isMainProcess(r)) => OneSignal(r)
     /\ last'.kind # "cycle" => costScale' = costScale]_vars

\* C23: in every ready cycle every process issues exactly one cost-scale
\* signal, the decrease iff the gradient norm is not finite and the increase
\* iff it is finite; a call that is not ready issues none, and nothing else
\* changes the cost-scale state.
C23_ExactlyOneSignal ==
  [][/\ last'.kind = "cycle" /\ numCalls' # numCalls =>
          \A r \in Procs : OneSignal(r)
     /\ last'.kind # "cycle" => costScale' = costScale]_vars

\* the step is a dynamic-mode call whose ratio was computed
RatioComputed == numCalls' # numCalls /\ cfg.dynamic /\ last'.out.abort = "no"

\* greatest common divisor of two naturals
RECURSIVE Gcd(_, _)
Gcd(a, b) == IF b = 0 THEN a ELSE Gcd(b, a % b)

\* the rational r in lowest terms
Reduced(r) == <<Num(r) \div Gcd(Num(r), Den(r)), Den(r) \div Gcd(Num(r), Den(r))>>

\* the ratio of the call is the one the update multiplier of initialize gives
ScaledByInitialized ==
  Reduced(last'.out.ratio)
    = Reduced(targetRatioWith(last'.mult, last'.out.typical,
                              initialUpdateMultiplier))

\* after the first cycle every ratio is scaled by the update multiplier that
\* initialize computed
RatioScaledAfterInitialize == [][RatioComputed /\ ~first => ScaledByInitialized]_vars

\* C24: in dynamic mode every ratio computation of tryGetSubBatches, those of
\* the calls before and at the first ready cycle included, scales the
\* scheduler's multiplier by the update multiplier of initialize (slot count x
\* delay).
C24_ScaledByUpdateMultiplier == [][RatioComputed => ScaledByInitialized]_vars

\* the size the shrink step is to give a batch of s sentences and w target
\* words, in a queue of n batches with ratio q
ShrunkSize(s, w, q, n) ==
  LET m == IF n > 1 THEN 1 ELSE CeilDiv(256 * s, w)
  IN  Min(s, Max(RCeil(<<s * Num(q), Den(q) * n>>), m))

\* C25: on a ready dynamic-mode call with queue length n and ratio q the
\* shrink step replaces each queued batch of size s by one of size
\* min(s, max(ceil(s*q/n), m)), m = 1 for n > 1 and ceil(256*s/wordsTrg) for
\* n = 1; no batch grows, none becomes empty, and the count is unchanged.
C25_ShrinkStep ==
  [][(numCalls' # numCalls /\ cfg.dynamic /\ last'.out.ready) =>
       LET queue  == Append(pendingBatches, last'.newBatch)
           n      == Len(queue)
           shrunk == last'.out.shrunk
       IN  /\ Len(shrunk) = n
           /\ \A k \in 1..n :
                /\ size(shrunk[k])
                     = ShrunkSize(size(queue[k]), wordsTrg(queue[k]),
                                  last'.out.ratio, n)
                /\ size(shrunk[k]) <= size(queue[k])
                /\ size(shrunk[k]) >= 1]_vars

\* C25 witness: a one-batch queue with ratio 0 is cut down to the minimum of
\* 256 target words, not to nothing
C25_Witness ==
  /\ last.kind = "cycle" /\ cfg.dynamic
  /\ Num(last.out.ratio) = 0
  /\ Len(last.out.shrunk) = 1
  /\ size(last.out.shrunk[1]) < size(last.newBatch)
  /\ size(last.out.shrunk[1]) > 1

\* reached as well: a queue of several batches is shrunk
C25_SeveralShrunk ==
  /\ last.kind = "cycle" /\ cfg.dynamic
  /\ Len(last.out.shrunk) > 1
  /\ \E k \in 1..Len(last.out.shrunk) :
       \E j \in 1..Len(last.out.shrunk) :
         size(last.out.shrunk[k]) = 1 /\ size(last.out.shrunk[j]) > 1

\* the number of batches in the last warp of the queue the cycle worked on,
\* and the number in the full warps before it (lines 200-206)
LastWarpSize ==
  last.out.queueLength
    - ((last.out.queueLength - 1) \div (cfg.numDevs * cfg.numProcs))
        * (cfg.numDevs * cfg.numProcs)

FullWarpsBatches == last.out.queueLength - LastWarpSize

\* the sub-batches handed off are the batches of the shrunk queue, unsplit
Unsplit == SameElements(last.out.subBatches, last.out.shrunk)

\* the batches of the full warps are handed off whole
FullWarpsWhole ==
  \A k \in 1..FullWarpsBatches :
    \E j \in 1..Len(last.out.subBatches) :
      last.out.subBatches[j] = last.out.shrunk[k]

\* the sub-batches handed off that are pieces of batch b
PiecesOf(b) ==
  {j \in 1..Len(last.out.subBatches) : DerivesFrom(last.out.subBatches[j], b)}

\* C26 as stated: rebalancing splits the batches of the last warp only when
\* the warp size is an exact multiple, at least twice, of the last warp's
\* batch count; otherwise the queue is handed off unsplit; batches of full
\* warps are never split.
C26_SplitOnlyExactMultiple ==
  (last.kind = "cycle" /\ cfg.dynamic) =>
    /\ ~Unsplit => /\ (cfg.numDevs * cfg.numProcs) % LastWarpSize = 0
                   /\ (cfg.numDevs * cfg.numProcs) \div LastWarpSize >= 2
    /\ FullWarpsWhole

\* C26 amended: rebalancing splits the batches of the last warp exactly when
\* the integer quotient warpSize / lastWarpSize, rounded down, is at least 2,
\* each of them into at most that many pieces; otherwise the queue is handed
\* off unsplit; batches of full warps are never split.
C26_SplitWhenQuotientAtLeastTwo ==
  (last.kind = "cycle" /\ cfg.dynamic) =>
    LET splitInto == (cfg.numDevs * cfg.numProcs) \div LastWarpSize
    IN  /\ ~Unsplit => splitInto >= 2
        /\ splitInto >= 2 =>
             \A k \in (FullWarpsBatches + 1)..last.out.queueLength :
               LET b == last.out.shrunk[k]
               IN  /\ Cardinality(PiecesOf(b)) <= splitInto
                   /\ size(b) >= 2 => /\ Cardinality(PiecesOf(b)) >= 2
                                      /\ \A j \in PiecesOf(b) :
                                           last.out.subBatches[j] # b
        /\ FullWarpsWhole

\* C26 witness: on five devices a queue of two batches is split two ways
\* each, although five is not a multiple of two
C26_Witness ==
  /\ last.kind = "cycle" /\ cfg.dynamic
  /\ cfg.numDevs * cfg.numProcs = 5
  /\ last.out.queueLength = 2
  /\ Len(last.out.subBatches) = 4

\* reached as well: a queue longer than one warp, whose full warp is handed
\* off whole and whose last batch is split
C26_FullWarpReached ==
  /\ last.kind = "cycle" /\ cfg.dynamic
  /\ FullWarpsBatches > 0
  /\ ~Unsplit

-----------------------------------------------------------------------------
(* Claims about the reported loss *)

\* the sub-batches, by index from 0, that the devices of process rank ran
LocalIndexes(rank) ==
  {k \in 0..(Len(last.subBatches) - 1) :
     \E sw \in ProcessedBy(k, Len(last.subBatches)) : sw[1][1] = rank}

\* the sum of the unscaled losses and label counts of those sub-batches
SumOfLocal(rank) ==
  [loss  |-> SumSeq([k \in 1..Len(last.subBatches) |->
                       IF k - 1 \in LocalIndexes(rank)
                       THEN build(last.subBatches[k]).loss ELSE 0]),
   count |-> SumSeq([k \in 1..Len(last.subBatches) |->
                       IF k - 1 \in LocalIndexes(rank)
                       THEN build(last.subBatches[k]).count ELSE 0])]

\* C27: the loss a process reports to the scheduler for a cycle is the sum of
\* the unscaled losses and label counts of exactly the sub-batches its own
\* slots processed in that cycle: the accumulators start empty every cycle,
\* nothing is carried over from earlier cycles, applied or skipped, and the
\* value does not depend on the cost-scale factor.
C27_ReportedLoss ==
  last.kind = "cycle" =>
    \A r \in Procs : last.report.localLoss[r] = SumOfLocal(r)

\* C27 witness: a third cycle, reached after two skipped ones with the
\* cost-scale factor lowered twice, reports a loss on every process
C27_Witness ==
  /\ last.kind = "cycle" /\ ~last.didInit /\ numCalls = MaxCalls
  /\ \A r \in Procs : /\ costScale[r].factor + 1 < 0
                      /\ last.report.localLoss[r].count > 0

\* reached as well: a cycle of two processes in which one has no sub-batch
\* and reports the empty loss
C27_EmptyLossReached ==
  /\ last.kind = "cycle" /\ cfg.numProcs = 2
  /\ last.report.localLoss[1] = StaticLoss
  /\ last.report.localLoss[0].count > 0

-----------------------------------------------------------------------------
(* Claims about the accumulation loop of one slot *)

\* the sub-batch index of slot s at accumulation step w
StepIndex(s, w) == (w * cfg.numProcs + s[1]) * cfg.numDevs + s[2]

\* C28: within one cycle each slot processes its sub-batches one at a time in
\* strictly increasing accumulation-step order, step 0, 1, 2, ..., stops at
\* the first step that has no sub-batch for it, and a slot with no sub-batch
\* runs no forward/backward and contributes a zero gradient and an empty
\* loss.
C28_StepOrder ==
  \A s \in Slots :
    LET n == Len(phase.subBatches)
        ran == phase.ran[s]
    IN  /\ \A k \in 1..Len(ran) : ran[k] = StepIndex(s, k - 1) /\ ran[k] < n
        /\ phase.slot[s] # "loop" => StepIndex(s, Len(ran)) >= n
        /\ StepIndex(s, 0) >= n =>
             /\ ran = <<>>
             /\ \A h \in Shards : phase.grads[s][h] = "zero"
             /\ phase.localDeviceLosses[s] = StaticLoss

\* C28 witness: a slot has run steps 0 and 1 and stopped at step 2, while
\* another slot of the same cycle has stopped at step 1
C28_Witness ==
  \E s, t \in Slots :
    /\ Len(phase.ran[s]) = 2 /\ phase.slot[s] = "accumulated"
    /\ Len(phase.ran[t]) = 1 /\ phase.slot[t] = "accumulated"

\* reached as well: a slot without a sub-batch has left the loop at step 0,
\* next to a slot that has run one
C28_IdleSlotReached ==
  \E s, t \in Slots :
    /\ Len(phase.ran[s]) = 1 /\ phase.slot[s] = "accumulated"
    /\ phase.ran[t] = <<>> /\ phase.slot[t] = "accumulated"
    /\ phase.localDeviceLosses[t] = StaticLoss

-----------------------------------------------------------------------------
(* Claims about how long a batch can stay queued *)

\* the bounds R on the target ratio the response claim ranges over
RatioBounds == {<<k, 2>> : k \in 1..(2 * MaxCalls)}

CeilOf(R) == CeilDiv(Num(R), Den(R))

\* a call of update(newBatch) in dynamic mode has returned
Called == cfg.dynamic /\ last.kind \in {"notReady", "cycle"}

\* the queue holds exactly the batches of the calls since the last ready one
QueueIsStreak ==
  \A k \in 1..Len(pendingBatches) :
    pendingBatches[k].id = numCalls - Len(pendingBatches) + k

\* the target ratio of the call that has returned is at most R
RatioWithin(R) == Called => RLeq(last.out.ratio, R)

\* fewer than ceil(R) calls in a row were not ready, the queue was at most
\* max(1, ceil(R)) long, and it shrank only by being handed off as a whole
Response(R) ==
  Called =>
    /\ QueueIsStreak
    /\ last.kind = "notReady" => Len(pendingBatches) < CeilOf(R)
    /\ last.out.queueLength <= Max(1, CeilOf(R))
    /\ Len(pendingBatches) < last.out.queueLength
         => pendingBatches = <<>> /\ last.kind = "cycle"

\* C29: in dynamic mode, if the rounded target ratio of every call is at most
\* R, then fewer than ceil(R) calls in a row are not ready, so that among any
\* ceil(R) consecutive calls one is ready (every call, when R < 1); the queue
\* is never longer than max(1, ceil(R)); and a ready call hands off the whole
\* queue, so that no batch stays queued for more than ceil(R) calls.
C29_BoundedResponse ==
  \A R \in RatioBounds : [](RatioWithin(R)) => [](Response(R))

\* C29 witness: the third call in a row is ready on a queue of three batches,
\* after two calls that were not: the ratio was above 1, then above 2, and is
\* at most 3
C29_Witness ==
  /\ Called /\ last.kind = "cycle"
  /\ numCalls = MaxCalls /\ last.out.queueLength = MaxCalls
  /\ RLeq(last.out.ratio, RInt(MaxCalls))
  /\ pendingBatches = <<>>

\* reached as well: a ratio of at most 1/2, with which the first call is ready
C29_EveryCallReady ==
  /\ Called /\ last.kind = "cycle" /\ numCalls = 1
  /\ RLeq(last.out.ratio, <<1, 2>>)

====
